---- MODULE Spec2Model ----
(***************************************************************************)
(* tiny-theme-switcher: the Manager (themes database, pointer file,        *)
(* selection), Theme.apply and the `theme` command group of src/main.py.   *)
(*                                                                         *)
(* Text is a sequence of one-character strings.  Python's None is the      *)
(* one-element sequence None, which no text equals (its element is not a   *)
(* single character).  The themes database is held as yaml.safe_load       *)
(* returns it: PyYAML writes and reads back a str or a null unchanged.     *)
(* Objects live in heap under integer identities, so that two references   *)
(* to one Theme (Manager.theme and an entry of Manager.themes) alias.      *)
(***************************************************************************)
EXTENDS Naturals, Sequences, FiniteSets, TLC

VARIABLES
    themesfile,     \* <confdir>/themes.yaml, as parsed data
    conffile,       \* <confdir>/theme (the pointer file): None when missing, else its text
    rofiFile,       \* rofi/config.rasi: None when missing, else its text
    polybarFile,    \* polybar/colors
    alacrittyFile,  \* alacritty/alacritty.yml
    fehLog,         \* the arguments of every `feh --bg-fill` call made so far
    pc,             \* "none": no Manager yet, "live": a Manager exists, "dead": the process raised
    themes,         \* Manager.themes: name -> object identity
    themename,      \* Manager.themename
    theme,          \* Manager.theme: object identity (0 before construction)
    heap,           \* object identity -> Theme fields
    err,            \* the exception that ended the last operation, or "ok"
    out,            \* what the last command printed
    applies,        \* how many times Manager.apply was called
    last            \* the last operation, its argument and the state it started from

vars == <<themesfile, conffile, rofiFile, polybarFile, alacrittyFile, fehLog,
          pc, themes, themename, theme, heap, err, out, applies, last>>

----------------------------------------------------------------------------
(* Bounds *)

MaxThemes == 2
MaxCalls == 2
MaxFileLen == 3
MaxValueLen == 2

----------------------------------------------------------------------------
(* Text *)

None == <<"None">>

\* ord() of the characters the model uses: str comparison is by code point
Ord(c) ==
    CASE c = "\n" -> 10
      [] c = "\r" -> 13
      [] c = " " -> 32
      [] c = "a" -> 97
      [] c = "b" -> 98
      [] c = "x" -> 120
      [] c = "z" -> 122

\* str.__lt__
RECURSIVE StrLess(_, _)
StrLess(s, t) ==
    IF t = <<>> THEN FALSE
    ELSE IF s = <<>> THEN TRUE
    ELSE IF Ord(Head(s)) # Ord(Head(t)) THEN Ord(Head(s)) < Ord(Head(t))
    ELSE StrLess(Tail(s), Tail(t))

\* sorted(keys)
RECURSIVE Sorted(_)
Sorted(S) ==
    IF S = {} THEN <<>>
    ELSE LET m == CHOOSE x \in S : \A y \in S \ {x} : StrLess(x, y)
         IN  <<m>> \o Sorted(S \ {m})

IsSpace(c) == c \in {" ", "\n", "\r", "\t"}

RECURSIVE LStrip(_)
LStrip(s) == IF s # <<>> /\ IsSpace(Head(s)) THEN LStrip(Tail(s)) ELSE s

RECURSIVE RStrip(_)
RStrip(s) ==
    IF s # <<>> /\ IsSpace(s[Len(s)]) THEN RStrip(SubSeq(s, 1, Len(s) - 1)) ELSE s

\* str.strip()
Strip(s) == RStrip(LStrip(s))

\* bool(x) of an Optional[str]
Truthy(x) == x # None /\ x # <<>>

----------------------------------------------------------------------------
(* Theme *)

Fields == {"wallpaper", "rofi_theme", "polybar_theme", "gtk_theme", "alacritty_theme"}

\* Theme()
EmptyTheme == [f \in Fields |-> None]

\* a yaml mapping is a set of <<key, value>> items, one per key
Keys(items) == {kv[1] : kv \in items}

Value(items, k) == (CHOOSE kv \in items : kv[1] = k)[2]

\* a constructor that accepts any mapping (one that drops the keys it does not know)
Constructible_lenient(data) == data.kind = "map"

\* Theme(**data) raises TypeError for a data that is no mapping or has an unknown key
Constructible(data) == data.kind = "map" /\ Keys(data.items) \subseteq Fields

\* Theme(**data)
ThemeOf(data) ==
    [f \in Fields |-> IF f \in Keys(data.items) THEN Value(data.items, f) ELSE None]

\* asdict(theme)
asdict(t) == [kind |-> "map", items |-> {<<f, t[f]>> : f \in Fields}]

----------------------------------------------------------------------------
(* Manager *)

Range(f) == {f[x] : x \in DOMAIN f}

NoThemes == [n \in {} |-> 0]

\* the identity of a newly allocated object
Fresh(used) == CHOOSE i \in 1..(Cardinality(used) + 1) : i \notin used

\* position of x in a sequence without repetitions
IndexOf(seq, x) == CHOOSE i \in 1..Len(seq) : seq[i] = x

\* the Manager's fields, as one record
Mgr(th, nm, t, h) == [themes |-> th, themename |-> nm, theme |-> t, heap |-> h]

\* load_themes(): rawthemes, then one new Theme per entry
RawThemes(file) == IF file.kind = "map" THEN file.entries ELSE NoThemes

\* some Theme(**data) of load_themes raises TypeError
LoadFails(file) == \E n \in DOMAIN RawThemes(file) : ~Constructible(RawThemes(file)[n])

load_themes(file) ==
    LET raw == RawThemes(file)
        order == Sorted(DOMAIN raw)
    IN  Mgr([n \in DOMAIN raw |-> IndexOf(order, n)],
            None, 0,
            [i \in 1..Len(order) |-> ThemeOf(raw[order[i]])])

\* use_default_theme()
use_default_theme(m) ==
    LET name == IF DOMAIN m.themes # {} THEN Sorted(DOMAIN m.themes)[1] ELSE None
        new == Fresh(DOMAIN m.heap)
    IN  IF name = None
        THEN Mgr(m.themes, name, new, [i \in DOMAIN m.heap \cup {new} |->
                                          IF i = new THEN EmptyTheme ELSE m.heap[i]])
        ELSE Mgr(m.themes, name, m.theme, m.heap)

\* select_theme(arg): the Manager after it, and the pointer file after it
select_theme(m, file, arg) ==
    LET m1 == IF Truthy(arg) THEN Mgr(m.themes, arg, m.theme, m.heap)
              ELSE IF file # None THEN Mgr(m.themes, Strip(file), m.theme, m.heap)
              ELSE use_default_theme(m)
        fallback == m1.themename \notin DOMAIN m1.themes
        m2 == IF fallback THEN use_default_theme(m1) ELSE m1
        file2 == IF fallback
                 THEN (IF m2.themename # None THEN m2.themename ELSE file)
                 ELSE (IF arg # None THEN m2.themename ELSE file)
        m3 == IF m2.themename # None
              THEN Mgr(m2.themes, m2.themename, m2.themes[m2.themename], m2.heap)
              ELSE m2
    IN  [m |-> m3, conffile |-> file2]

\* dump(): what is written to themes.yaml
dump(m) == [kind |-> "map", entries |-> [n \in DOMAIN m.themes |-> asdict(m.heap[m.themes[n]])]]

\* append(name): the Manager after it, and the database after it
append(m, name) ==
    LET new == Fresh(DOMAIN m.heap)
        m1 == Mgr([n \in DOMAIN m.themes \cup {name} |-> IF n = name THEN new ELSE m.themes[n]],
                  m.themename, m.theme,
                  [i \in DOMAIN m.heap \cup {new} |-> IF i = new THEN EmptyTheme ELSE m.heap[i]])
    IN  [m |-> m1, themesfile |-> dump(m1)]

\* a remove that leaves the selection alone (remove without its last two lines)
remove_keeps_selection(m, file, name) ==
    IF name \notin DOMAIN m.themes
    THEN [m |-> m, themesfile |-> file, err |-> "KeyError"]
    ELSE LET m1 == Mgr([n \in DOMAIN m.themes \ {name} |-> m.themes[n]],
                       m.themename, m.theme, m.heap)
         IN  [m |-> m1, themesfile |-> dump(m1), err |-> "ok"]

\* a remove that tolerates a missing name (themes.pop(name, None) for del themes[name])
remove_tolerant(m, file, name) ==
    LET m1 == Mgr([n \in DOMAIN m.themes \ {name} |-> m.themes[n]],
                  m.themename, m.theme, m.heap)
    IN  [m |-> IF m1.themename = name THEN use_default_theme(m1) ELSE m1,
         themesfile |-> dump(m1), err |-> "ok"]

\* remove(name): del (KeyError for a name that is no key), dump, then the re-selection
remove(m, file, name) ==
    IF name \notin DOMAIN m.themes
    THEN [m |-> m, themesfile |-> file, err |-> "KeyError"]
    ELSE LET m1 == Mgr([n \in DOMAIN m.themes \ {name} |-> m.themes[n]],
                       m.themename, m.theme, m.heap)
         IN  [m |-> IF m1.themename = name THEN use_default_theme(m1) ELSE m1,
              themesfile |-> dump(m1), err |-> "ok"]

NoHeap == [i \in {} |-> EmptyTheme]

\* a process that has no Manager
NoManager == Mgr(NoThemes, None, 0, NoHeap)

\* Manager(config): load_themes, then select_theme with no name
ManagerNew(file, pointer) ==
    IF LoadFails(file)
    THEN [m |-> NoManager, conffile |-> pointer, err |-> "TypeError"]
    ELSE LET r == select_theme(load_themes(file), pointer, None)
         IN  [m |-> r.m, conffile |-> r.conffile, err |-> "ok"]

\* objects no reference reaches are dropped from heap and the others renumbered
\* (the themes in name order, then Manager.theme when no entry of themes holds it)
Collect(m) ==
    LET order == Sorted(DOMAIN m.themes)
        n == Len(order)
        detached == m.theme # 0 /\ m.theme \notin Range(m.themes)
        held == CHOOSE k \in DOMAIN m.themes : m.themes[k] = m.theme
    IN  Mgr([k \in DOMAIN m.themes |-> IndexOf(order, k)],
            m.themename,
            IF m.theme = 0 THEN 0 ELSE IF detached THEN n + 1 ELSE IndexOf(order, held),
            [i \in 1..(IF detached THEN n + 1 ELSE n) |->
                IF i <= n THEN m.heap[m.themes[order[i]]] ELSE m.heap[m.theme]])

----------------------------------------------------------------------------
(* Theme.apply *)

\* the files apply() touches and the feh calls, as one record
Fs(r, p, a, f, e) == [rofi |-> r, polybar |-> p, alacritty |-> a, feh |-> f, err |-> e]

\* _apply_wallpaper
apply_wallpaper(t, fs) ==
    Fs(fs.rofi, fs.polybar, fs.alacritty, Append(fs.feh, t.wallpaper), fs.err)

\* _apply_rofi: the text written over config.rasi
RofiText(v) ==
    <<"\n", "                @import \"layout.rasi\"", "\n",
      "                @import \"themes/">> \o v \o <<".rasi\"", "\n", "                ">>

apply_rofi(t, fs) == Fs(RofiText(t.rofi_theme), fs.polybar, fs.alacritty, fs.feh, fs.err)

\* _apply_polybar: the text written over colors
PolybarText(v) == <<"include-file='~/.config/polybar/themes/">> \o v \o <<"'">>

apply_polybar(t, fs) == Fs(fs.rofi, PolybarText(t.polybar_theme), fs.alacritty, fs.feh, fs.err)

\* open(path, "r").read(): universal newlines turn "\r\n" and "\r" into "\n"
RECURSIVE Read(_)
Read(s) ==
    IF s = <<>> THEN <<>>
    ELSE IF Head(s) = "\r"
         THEN IF Len(s) >= 2 /\ s[2] = "\n"
              THEN <<"\n">> \o Read(Tail(Tail(s)))
              ELSE <<"\n">> \o Read(Tail(s))
         ELSE <<Head(s)>> \o Read(Tail(s))

\* original.split("\n")
RECURSIVE Split(_)
Split(s) ==
    IF \A i \in 1..Len(s) : s[i] # "\n" THEN <<s>>
    ELSE LET k == CHOOSE i \in 1..Len(s) : s[i] = "\n" /\ \A j \in 1..(i - 1) : s[j] # "\n"
         IN  <<SubSeq(s, 1, k - 1)>> \o Split(SubSeq(s, k + 1, Len(s)))

\* "\n".join(lines)
RECURSIVE Join(_)
Join(lines) ==
    IF lines = <<>> THEN <<>>
    ELSE IF Len(lines) = 1 THEN lines[1]
    ELSE lines[1] \o <<"\n">> \o Join(Tail(lines))

\* while not lines[-1]: lines.pop()   (lines[-1] of an empty list raises IndexError)
RECURSIVE PopBlank(_)
PopBlank(lines) ==
    IF lines = <<>> THEN <<>>
    ELSE IF lines[Len(lines)] = <<>> THEN PopBlank(SubSeq(lines, 1, Len(lines) - 1))
    ELSE lines

ColorsLine(v) == <<"colors: *">> \o v \o <<"-theme">>

\* an _apply_alacritty that adds the colors line after the last line (lines.append for
\* the assignment to lines[-1])
apply_alacritty_appends(t, fs) ==
    IF fs.alacritty = None
    THEN Fs(fs.rofi, fs.polybar, fs.alacritty, fs.feh, "FileNotFoundError")
    ELSE LET lines == PopBlank(Split(Read(fs.alacritty)))
         IN  IF lines = <<>>
             THEN Fs(fs.rofi, fs.polybar, fs.alacritty, fs.feh, "IndexError")
             ELSE Fs(fs.rofi, fs.polybar,
                     Join(lines \o <<ColorsLine(t.alacritty_theme), <<>> >>),
                     fs.feh, fs.err)

\* _apply_alacritty
apply_alacritty(t, fs) ==
    IF fs.alacritty = None
    THEN Fs(fs.rofi, fs.polybar, fs.alacritty, fs.feh, "FileNotFoundError")
    ELSE LET lines == PopBlank(Split(Read(fs.alacritty)))
         IN  IF lines = <<>>
             THEN Fs(fs.rofi, fs.polybar, fs.alacritty, fs.feh, "IndexError")
             ELSE Fs(fs.rofi, fs.polybar,
                     Join(SubSeq(lines, 1, Len(lines) - 1)
                          \o <<ColorsLine(t.alacritty_theme), <<>> >>),
                     fs.feh, fs.err)

\* an apply that sets the wallpaper whether or not the theme has one
ThemeApply_unguarded(t, fs) ==
    LET f1 == apply_wallpaper(t, fs)
        f2 == IF Truthy(t.rofi_theme) THEN apply_rofi(t, f1) ELSE f1
        f3 == IF Truthy(t.polybar_theme) THEN apply_polybar(t, f2) ELSE f2
    IN  IF Truthy(t.alacritty_theme) THEN apply_alacritty(t, f3) ELSE f3

\* Theme.apply
ThemeApply(t, fs) ==
    LET f1 == IF Truthy(t.wallpaper) THEN apply_wallpaper(t, fs) ELSE fs
        f2 == IF Truthy(t.rofi_theme) THEN apply_rofi(t, f1) ELSE f1
        f3 == IF Truthy(t.polybar_theme) THEN apply_polybar(t, f2) ELSE f2
    IN  IF Truthy(t.alacritty_theme) THEN apply_alacritty(t, f3) ELSE f3

----------------------------------------------------------------------------
(* The `theme` command group: each command is one process *)

\* what a command leaves: the Manager at exit, both files, the exception and the output
Done(m, file, pointer, e, o) ==
    [m |-> m, themesfile |-> file, conffile |-> pointer, err |-> e, out |-> o]

\* each command below starts with manager = Manager(config=config): r is what that gave

\* theme create --name NAME
create(r, file, name) ==
    LET a == append(r.m, name)
    IN  IF r.err # "ok" THEN Done(r.m, file, r.conffile, r.err, None)
        ELSE Done(a.m, a.themesfile, r.conffile, "ok", None)

\* theme delete --name NAME
delete(r, file, name) ==
    LET d == remove(r.m, file, name)
    IN  IF r.err # "ok" THEN Done(r.m, file, r.conffile, r.err, None)
        ELSE Done(d.m, d.themesfile, r.conffile, d.err, None)

\* setattr(manager.theme, field, value)
setattr(m, field, value) ==
    Mgr(m.themes, m.themename, m.theme,
        [m.heap EXCEPT ![m.theme] = [@ EXCEPT ![field] = value]])

\* a set that does not write the database (set without manager.dump())
set_without_dump(r, file, field, value) ==
    IF r.err # "ok" THEN Done(r.m, file, r.conffile, r.err, None)
    ELSE Done(setattr(r.m, field, value), file, r.conffile, "ok", None)

\* theme set --field FIELD --value VALUE
set(r, file, field, value) ==
    LET m1 == setattr(r.m, field, value)
    IN  IF r.err # "ok" THEN Done(r.m, file, r.conffile, r.err, None)
        ELSE Done(m1, dump(m1), r.conffile, "ok", None)

\* theme get --field FIELD
get(r, file, field) ==
    IF r.err # "ok" THEN Done(r.m, file, r.conffile, r.err, None)
    ELSE Done(r.m, file, r.conffile, "ok", r.m.heap[r.m.theme][field])

----------------------------------------------------------------------------
(* The states a config directory can be in *)

Names == {<<>>, <<"a">>, <<"b">>, <<"b", " ">>}

\* what a caller may pass to select_theme: a name, no theme's name, nothing
Args == Names \cup {<<"z">>, None}

Pointers == {None, <<"a">>, <<"b", "\n">>, <<"z">>}

EntryEmpty == [kind |-> "map", items |-> {}]

EntryPartial ==
    [kind |-> "map", items |-> {<<"wallpaper", <<"x">> >>, <<"rofi_theme", None>>,
                                <<"alacritty_theme", <<"a">> >>}]

EntryUnknown == [kind |-> "map", items |-> {<<"wallpaper", <<"x">> >>, <<"font", <<"x">> >>}]

\* an entry that is no mapping (a null, a list, a scalar)
EntryOther == [kind |-> "other", items |-> {}]

RawEntries == {EntryEmpty, EntryPartial, EntryUnknown, EntryOther}

MissingFile == [kind |-> "missing", entries |-> NoThemes]

\* a themes.yaml whose top level is no mapping (a list, a scalar, empty)
OtherFile == [kind |-> "other", entries |-> NoThemes]

DatabasesOver(names, entries) ==
    {MissingFile, OtherFile} \cup
    {[kind |-> "map", entries |-> f] :
        f \in UNION {[S -> entries] : S \in {T \in SUBSET names : Cardinality(T) <= MaxThemes}}}

----------------------------------------------------------------------------
(* The Manager's methods, called in any order by one process after another *)

Me == Mgr(themes, themename, theme, heap)

SetManager(m) ==
    /\ themes' = m.themes
    /\ themename' = m.themename
    /\ theme' = m.theme
    /\ heap' = m.heap

Snapshot ==
    [themesfile |-> themesfile, conffile |-> conffile, rofiFile |-> rofiFile,
     polybarFile |-> polybarFile, alacrittyFile |-> alacrittyFile, fehLog |-> fehLog,
     themes |-> themes, themename |-> themename, theme |-> theme, heap |-> heap]

NoFragments ==
    /\ applies = 0
    /\ rofiFile = None
    /\ polybarFile = None
    /\ alacrittyFile = None
    /\ fehLog = <<>>

NoProcess ==
    /\ pc = "none"
    /\ themes = NoThemes
    /\ themename = None
    /\ theme = 0
    /\ heap = NoHeap
    /\ err = "ok"
    /\ out = None

Init ==
    /\ themesfile \in DatabasesOver(Names, RawEntries)
    /\ conffile \in Pointers
    /\ NoFragments
    /\ NoProcess
    /\ last = [op |-> "start", arg |-> None, pre |-> Snapshot, trail |-> <<>>]

\* a new process constructs its Manager
Construct ==
    /\ \E r \in {ManagerNew(themesfile, conffile)} :
        /\ SetManager(Collect(r.m))
        /\ conffile' = r.conffile
        /\ err' = r.err
        /\ pc' = IF r.err = "ok" THEN "live" ELSE "dead"
    /\ last' = [op |-> "construct", arg |-> None, pre |-> Snapshot,
                trail |-> IF pc = "live" /\ last.op = "select_theme"
                             /\ last.arg \in DOMAIN themes
                          THEN <<last.arg>> ELSE <<>>]
    /\ UNCHANGED <<themesfile, rofiFile, polybarFile, alacrittyFile, fehLog, out, applies>>

CallSelectTheme ==
    /\ pc = "live"
    /\ \E arg \in Args :
        /\ \E r \in {select_theme(Me, conffile, arg)} :
            /\ SetManager(Collect(r.m))
            /\ conffile' = r.conffile
        /\ last' = [op |-> "select_theme", arg |-> arg, pre |-> Snapshot, trail |-> <<>>]
    /\ err' = "ok"
    /\ UNCHANGED <<themesfile, rofiFile, polybarFile, alacrittyFile, fehLog, pc, out, applies>>

CallAppend ==
    /\ pc = "live"
    /\ \E name \in Names :
        /\ \E r \in {append(Me, name)} :
            /\ SetManager(Collect(r.m))
            /\ themesfile' = r.themesfile
        /\ last' = [op |-> "append", arg |-> name, pre |-> Snapshot, trail |-> <<>>]
    /\ err' = "ok"
    /\ UNCHANGED <<conffile, rofiFile, polybarFile, alacrittyFile, fehLog, pc, out, applies>>

CallRemove ==
    /\ pc = "live"
    /\ \E name \in Names :
        /\ \E r \in {remove(Me, themesfile, name)} :
            /\ SetManager(Collect(r.m))
            /\ themesfile' = r.themesfile
            /\ err' = r.err
            /\ pc' = IF r.err = "ok" THEN "live" ELSE "dead"
        /\ last' = [op |-> "remove", arg |-> name, pre |-> Snapshot, trail |-> <<>>]
    /\ UNCHANGED <<conffile, rofiFile, polybarFile, alacrittyFile, fehLog, out, applies>>

Next == Construct \/ CallSelectTheme \/ CallAppend \/ CallRemove

Spec == Init /\ [][Next]_vars

----------------------------------------------------------------------------
(* Manager.apply, on themes and an alacritty.yml of any content *)

\* every text of at most n characters of cs
Texts(n, cs) == UNION {[1..k -> cs] : k \in 0..n}

ApplyThemes ==
    {[wallpaper |-> w, rofi_theme |-> r, polybar_theme |-> p, gtk_theme |-> None,
      alacritty_theme |-> a] :
        w \in {None, <<"x">>}, r \in {None, <<"a">>}, p \in {None, <<"a">>},
        a \in {None} \cup Texts(MaxValueLen, {"a", "\n", "\r"})}

ApplyDatabases ==
    {MissingFile, OtherFile, [kind |-> "map", entries |-> NoThemes]} \cup
    {[kind |-> "map", entries |-> [n \in {<<"a">>} |-> asdict(t)]] : t \in ApplyThemes}

ApplyInit ==
    /\ themesfile \in ApplyDatabases
    /\ conffile \in {None, <<"a">>}
    /\ rofiFile = None
    /\ polybarFile = None
    /\ alacrittyFile \in {None} \cup Texts(MaxFileLen, {"x", "\n", "\r"})
    /\ fehLog = <<>>
    /\ applies = 0
    /\ NoProcess
    /\ last = [op |-> "start", arg |-> None, pre |-> Snapshot, trail |-> <<>>]

\* Manager.apply; trail says whether the call before it was an apply too
CallApply ==
    /\ pc = "live"
    /\ applies < MaxCalls
    /\ applies' = applies + 1
    /\ \E fs \in {ThemeApply(heap[theme],
                             Fs(rofiFile, polybarFile, alacrittyFile, fehLog, "ok"))} :
        /\ rofiFile' = fs.rofi
        /\ polybarFile' = fs.polybar
        /\ alacrittyFile' = fs.alacritty
        /\ fehLog' = fs.feh
        /\ err' = fs.err
        /\ pc' = IF fs.err = "ok" THEN "live" ELSE "dead"
    /\ last' = [op |-> "apply", arg |-> None, pre |-> Snapshot,
                trail |-> IF last.op = "apply" THEN <<"apply">> ELSE <<>>]
    /\ UNCHANGED <<themesfile, conffile, themes, themename, theme, heap, out>>

ApplyNext == Construct \/ CallApply

SpecApply == ApplyInit /\ [][ApplyNext]_vars

----------------------------------------------------------------------------
(* The `theme` commands, run one after another on one config directory *)

CliNames == {<<"a">>, <<" ", "a">>, <<"b", " ">>}

CliPointers == {None, <<"a">>, <<"z">>}

Values == {<<"x">>}

\* the fields the commands are given: one that the entries of RawEntries set, one they do not
CliFields == {"wallpaper", "gtk_theme"}

CliInit ==
    /\ themesfile \in DatabasesOver(CliNames, RawEntries)
    /\ conffile \in CliPointers
    /\ NoFragments
    /\ NoProcess
    /\ last = [op |-> "start", arg |-> None, pre |-> <<>>, trail |-> <<>>]

\* the process ends: its Manager as it was at exit, the files and the output remain
Exit(r) ==
    /\ SetManager(Collect(r.m))
    /\ themesfile' = r.themesfile
    /\ conffile' = r.conffile
    /\ err' = r.err
    /\ out' = r.out
    /\ pc' = IF r.err = "ok" THEN "exit" ELSE "dead"
    /\ UNCHANGED <<rofiFile, polybarFile, alacrittyFile, fehLog, applies>>

\* the command, its arguments and whether the database it starts from can be loaded
Cmd(op, arg) == [op |-> op, arg |-> arg, loadable |-> ~LoadFails(themesfile)]

CliCreate ==
    \E name \in CliNames :
        /\ \E mgr \in {ManagerNew(themesfile, conffile)} :
              \E r \in {create(mgr, themesfile, name)} : Exit(r)
        /\ last' = [op |-> "create", arg |-> name, pre |-> <<>>,
                    trail |-> <<Cmd("create", name)>>]

CliDelete ==
    \E name \in CliNames :
        /\ \E mgr \in {ManagerNew(themesfile, conffile)} :
              \E r \in {delete(mgr, themesfile, name)} : Exit(r)
        /\ last' = [op |-> "delete", arg |-> name, pre |-> <<>>, trail |-> <<>>]

CliSet ==
    \E field \in CliFields, value \in Values :
        /\ \E mgr \in {ManagerNew(themesfile, conffile)} :
              \E r \in {set(mgr, themesfile, field, value)} : Exit(r)
        /\ last' = [op |-> "set", arg |-> <<field, value>>, pre |-> <<>>,
                    trail |-> IF Len(last.trail) = 1
                              THEN last.trail \o <<Cmd("set", <<field, value>>)>>
                              ELSE <<>>]

CliGet ==
    \E field \in CliFields :
        /\ \E mgr \in {ManagerNew(themesfile, conffile)} :
              \E r \in {get(mgr, themesfile, field)} : Exit(r)
        /\ last' = [op |-> "get", arg |-> field, pre |-> <<>>,
                    trail |-> IF Len(last.trail) = 2 /\ last.trail[2].arg[1] = field
                              THEN last.trail \o <<Cmd("get", field)>>
                              ELSE <<>>]

CliNext == CliCreate \/ CliDelete \/ CliSet \/ CliGet

SpecCli == CliInit /\ [][CliNext]_vars

----------------------------------------------------------------------------
(* Properties of the Manager's methods *)

\* the alphabetically first of a set of names, None for no names
FirstName(S) == IF S = {} THEN None ELSE CHOOSE x \in S : \A y \in S : x = y \/ StrLess(x, y)

KeysBefore == DOMAIN last.pre.themes

\* C1: after construction and any calls of select_theme, append and remove, the
\* selected name is a key of themes, or none when themes is empty.
C1_SelectedIsKey ==
    pc = "live" =>
        IF DOMAIN themes = {} THEN themename = None ELSE themename \in DOMAIN themes

\* C2: select_theme resolves to the explicit name if one is given, else to the name in
\* the pointer file if the file exists, else to the alphabetically first theme name;
\* a name so resolved that is no key of themes gives the alphabetically first name
\* (none without themes).
C2_ResolutionOrder ==
    (last.op = "select_theme" /\ pc = "live") =>
        LET resolved == IF last.arg # None THEN last.arg
                        ELSE IF last.pre.conffile # None THEN Strip(last.pre.conffile)
                        ELSE FirstName(KeysBefore)
        IN  themename = IF resolved \in KeysBefore THEN resolved ELSE FirstName(KeysBefore)

\* C3: select_theme(y) for a key y of themes writes y to the pointer file, and the
\* next Manager constructed over the same directory selects y.
C3_SelectionPersists ==
    /\ (last.op = "select_theme" /\ last.arg \in KeysBefore) => conffile = last.arg
    /\ (last.op = "construct" /\ last.trail # <<>>) => themename = last.trail[1]

\* C4: remove(x) of a key x deletes x from themes and from the database; if x was the
\* selected name the selection becomes the alphabetically first remaining name (none
\* if no theme remains), otherwise the selection is unchanged.
C4_RemoveReselects ==
    (last.op = "remove" /\ last.arg \in KeysBefore) =>
        /\ err = "ok"
        /\ DOMAIN themes = KeysBefore \ {last.arg}
        /\ themesfile.kind = "map"
        /\ DOMAIN themesfile.entries = KeysBefore \ {last.arg}
        /\ \A n \in DOMAIN themes : themesfile.entries[n] = asdict(heap[themes[n]])
        /\ themename = IF last.pre.themename = last.arg
                       THEN FirstName(KeysBefore \ {last.arg})
                       ELSE last.pre.themename

C4_Witness ==
    /\ last.op = "remove"
    /\ last.pre.themename = last.arg
    /\ Cardinality(DOMAIN themes) >= 2

\* C5: remove(name) of a name that is no key of themes raises KeyError and leaves
\* themes, the database file, the pointer file and the selection as they were.
C5_RemoveMissing ==
    (last.op = "remove" /\ last.arg \notin KeysBefore) =>
        /\ err = "KeyError"
        /\ pc = "dead"
        /\ Snapshot = last.pre

C5_Witness ==
    /\ last.op = "remove"
    /\ last.arg \notin KeysBefore
    /\ KeysBefore # {}
    /\ last.pre.themesfile.entries # dump(last.pre).entries

\* every entry is a mapping that has only fields of Theme
OnlyKnownFields(file) ==
    \A n \in DOMAIN file.entries :
        /\ file.entries[n].kind = "map"
        /\ \A kv \in file.entries[n].items : kv[1] \in Fields

Parsed(file) ==
    /\ DOMAIN themes = DOMAIN file.entries
    /\ \A n \in DOMAIN themes : \A f \in Fields :
          heap[themes[n]][f] =
              IF \E kv \in file.entries[n].items : kv[1] = f
              THEN (CHOOSE kv \in file.entries[n].items : kv[1] = f)[2]
              ELSE None

C10_ActiveIsSelected ==
    pc = "live" =>
        IF themename # None
        THEN themename \in DOMAIN themes /\ theme = themes[themename]
        ELSE heap[theme] = EmptyTheme

----------------------------------------------------------------------------
(* Properties of apply *)

FilesAsBefore ==
    /\ rofiFile = last.pre.rofiFile
    /\ polybarFile = last.pre.polybarFile
    /\ alacrittyFile = last.pre.alacrittyFile

\* C7: with no themes and no pointer file a new Manager selects no theme and does not
\* create the pointer file, its theme is all unset, and apply() then writes no file and
\* calls no program.
C7_EmptyStateInert ==
    /\ (last.op = "construct" /\ DOMAIN RawThemes(last.pre.themesfile) = {}
            /\ last.pre.conffile = None)
        => /\ err = "ok"
           /\ themename = None
           /\ conffile = None
           /\ heap[theme] = EmptyTheme
    /\ (last.op = "apply" /\ DOMAIN themes = {} /\ conffile = None)
        => /\ err = "ok"
           /\ heap[theme] = EmptyTheme
           /\ FilesAsBefore
           /\ fehLog = last.pre.fehLog

C7_Witness ==
    /\ last.op = "apply"
    /\ DOMAIN themes = {}
    /\ conffile = None
    /\ alacrittyFile # None

\* a second apply() in a row, after a first one that succeeded
SecondApply == last.op = "apply" /\ last.trail = <<"apply">>

\* C8 as stated: for any theme and any contents of the three files on which a first
\* apply() succeeds, a second apply() in a row leaves the three files as the first left
\* them.
C8_ApplyIdempotent == SecondApply => FilesAsBefore

OneLine(v) == \A i \in 1..Len(v) : v[i] \notin {"\n", "\r"}

LineCount(text) == Len(Split(Read(text)))

\* C8 amended: the same for any theme whose alacritty_theme holds no line break; the
\* line count of the alacritty file then stays as the first apply() left it.
C8_ApplyIdempotentOneLine ==
    (SecondApply /\ OneLine(heap[theme].alacritty_theme)) =>
        /\ err = "ok"
        /\ FilesAsBefore
        /\ Truthy(heap[theme].alacritty_theme) =>
               LineCount(alacrittyFile) = LineCount(last.pre.alacrittyFile)

C8_Witness ==
    /\ SecondApply
    /\ Truthy(heap[theme].alacritty_theme)
    /\ OneLine(heap[theme].alacritty_theme)
    /\ Truthy(heap[theme].rofi_theme)
    /\ LineCount(alacrittyFile) >= 3

----------------------------------------------------------------------------
(* Properties of the commands *)

\* the commands before the last were `theme create` and `theme set --field F --value V`,
\* and the last was `theme get --field F`
CreateSetGet == Len(last.trail) = 3

SetValue == last.trail[2].arg[2]

GetPrintsSetValue ==
    /\ err = "ok"
    /\ out = SetValue
    /\ themename \in DOMAIN themesfile.entries
    /\ <<last.arg, SetValue>> \in themesfile.entries[themename].items

====
